---- MODULE Spec2Model ----
(***************************************************************************)
(* LocaleDB: the ETL loaders of localedb_man.py (locale reference data,    *)
(* COVID-19 disease dynamics, Keystone NPIs) and the read-side LocaleDB    *)
(* object of localedb.py, over one PostgreSQL database.                    *)
(*                                                                         *)
(* Tables are sets of rows.  Python None and SQL NULL are the value NULL.  *)
(* A CSV file is a sequence of rows, a row a sequence of cells; the Python *)
(* index r[k] is Cell(r, k).  One management command is one process with   *)
(* one connection: what it has not committed when it ends is lost.         *)
(***************************************************************************)
EXTENDS Integers, Sequences, FiniteSets, TLC

VARIABLES
    web,             \* the files behind the source URLs
    locale,          \* main.locale (committed rows)
    disease,         \* dis.disease
    dyn,             \* dis.dyn
    npi,             \* dis.npi
    npi_type,        \* dis.npi_type
    pc,              \* position of the running management command
    dyn_load,        \* the temporary table dyn_load of the running command
    run,             \* the running / last management command and how it ended
    loaded,          \* the sources behind the rows now committed (history)
    locale_id,       \* LocaleDB.locale_id
    locale_iso_num,  \* LocaleDB.locale_iso_num
    locale_fips,     \* LocaleDB.locale_fips
    disease_id,      \* LocaleDB.disease_id
    call,            \* the last call made on the LocaleDB object and how it ended
    trace,           \* the phases the running / last dataset load went through (history)
    vax_age,         \* vax.age
    vax_race,        \* vax.race
    vax_vax,         \* vax.vax
    health_measures, \* health.measures
    health,          \* health.health
    weather,         \* weather.weather
    mobility,        \* mobility.mobility
    pop,             \* the seven tables of the pop schema, by table name
    noaa,            \* download_noaa: its counter i and what it has done so far
    job,             \* the running / last fact or population command and how it ended
    air              \* scripts/airtraffic.py: the download loop of one run

vars == <<web, locale, disease, dyn, npi, npi_type, pc, dyn_load, run, loaded,
          locale_id, locale_iso_num, locale_fips, disease_id, call,
          trace, vax_age, vax_race, vax_vax, health_measures, health, weather,
          mobility, pop, noaa, job, air>>

dbVars     == <<locale, disease, dyn, npi, npi_type>>
loaderVars == <<pc, dyn_load, run, loaded>>
clientVars == <<locale_id, locale_iso_num, locale_fips, disease_id, call>>
factVars   == <<vax_age, vax_race, vax_vax, health_measures, health, weather, mobility>>
extVars    == <<factVars, pop, noaa, job, air>>

-----------------------------------------------------------------------------
(* Values *)

NULL  == "NULL"
UNSET == "UNSET"     \* an attribute __init__ never assigned

\* r[k] of a Python list
Cell(r, k) == r[k + 1]

\* '' becomes None: [None if c == '' else c for c in r]
NullIfEmpty(c) == IF c = "" THEN NULL ELSE c
TransformRow(r) == [i \in DOMAIN r |-> NullIfEmpty(r[i])]
TransformRows(rows) == [i \in DOMAIN rows |-> TransformRow(rows[i])]

\* SQL "a = b": not true when either side is NULL
SqlEq(a, b) == a # NULL /\ b # NULL /\ a = b
\* SQL "a IS NOT DISTINCT FROM b"
NotDistinct(a, b) == a = b

\* r[:n] of a Python list
Prefix(r, n) == SubSeq(r, 1, IF Len(r) < n THEN Len(r) ELSE n)

RECURSIVE SeqToSet(_)
SeqToSet(s) == IF s = <<>> THEN {} ELSE {Head(s)} \cup SeqToSet(Tail(s))

\* the subsequence of s at the positions in S
RECURSIVE PickSeq(_, _)
PickSeq(s, S) ==
    IF s = <<>> THEN <<>>
    ELSE LET rest == PickSeq(Tail(s), {i - 1 : i \in S \ {1}})
         IN  IF 1 \in S THEN <<Head(s)>> \o rest ELSE rest

-----------------------------------------------------------------------------
(* The JHU lookup table (UID_ISO_FIPS_LookUp_Table.csv) *)

\* columns: UID, iso2, iso3, code3, FIPS, Admin2, Province_State, Country_Region,
\*          Lat, Long_, Combined_Key, Population
JhuRow(uid, code3, fips, admin2, province, country) ==
    <<uid, "", "", code3, fips, admin2, province, country, "", "", "", "">>

JhuLookup == <<
    JhuRow("840",   "840", "",      "",         "",     "US"),
    JhuRow("39",    "840", "39",    "",         "Ohio", "US"),
    JhuRow("39049", "840", "39049", "Franklin", "Ohio", "US"),
    JhuRow("70002", "840", "",      "Dukes",    "Mass", "US"),
    JhuRow("380",   "380", "",      "",         "",     "Italy"),
    JhuRow("99",    "840", "39",    "",         "Ohio", "US"),
    JhuRow("42003", "840", "42003", "Allegheny", "Penn", "US") >>

\* every selection of rows of JhuLookup, in file order
AllLocaleFiles == {PickSeq(JhuLookup, S) : S \in SUBSET (1..Len(JhuLookup))}

-----------------------------------------------------------------------------
(* main.locale *)

\* the INSERT column list of load_locales_jhu
LocaleRow(r) ==
    [id      |-> Cell(r, 0), iso_num |-> Cell(r, 3), fips   |-> Cell(r, 4),
     admin0  |-> Cell(r, 7), admin1  |-> Cell(r, 6), admin2 |-> Cell(r, 5)]

\* primary key of main.locale
LocalePkeyOK(rows) ==
    \A i, j \in DOMAIN rows : i # j => Cell(rows[i], 0) # Cell(rows[j], 0)

\* a uniqueness in which a NULL equals nothing
LocaleUniqueOK_NullsDistinct(rows) ==
    \A i, j \in DOMAIN rows : i # j =>
        ~ ( /\ SqlEq(Cell(rows[i], 7), Cell(rows[j], 7))
            /\ SqlEq(Cell(rows[i], 6), Cell(rows[j], 6))
            /\ SqlEq(Cell(rows[i], 5), Cell(rows[j], 5)) )

\* uniqueness of (admin0, admin1, admin2), two NULLs equal
LocaleUniqueOK(rows) ==
    \A i, j \in DOMAIN rows : i # j =>
        ~ ( /\ NotDistinct(Cell(rows[i], 7), Cell(rows[j], 7))
            /\ NotDistinct(Cell(rows[i], 6), Cell(rows[j], 6))
            /\ NotDistinct(Cell(rows[i], 5), Cell(rows[j], 5)) )

\* the INSERT without the DELETE before it
LocaleReplaced_NoDelete(old, rows) == old \cup {LocaleRow(rows[i]) : i \in DOMAIN rows}

\* DELETE FROM locale; INSERT every row of the file
LocaleReplaced(old, rows) == {LocaleRow(rows[i]) : i \in DOMAIN rows}

Idle == pc = "idle"

\* the loader also deletes the rows of the table it looks locales up in
LocaleSelected_Deleted(loc) == {}

\* main.locale after the statements the loaders other than load_locales_jhu
\* issue on it: SELECT ... FROM main.locale (fetchone, read_sql, the subqueries
\* of UPDATE tmp_...), which change no row
LocaleSelected(loc) == loc

\* the statements of one pass up to and including its locale lookups
ResolvePhases == <<"extract", "transform", "resolve">>

\* the vacuum issued before the commit
LoadPhases_VacuumFirst == <<"load", "vacuum", "commit", "done">>

\* the statements after the lookups: DELETE and INSERT on the target table,
\* conn.commit(), dbi.vacuum(target), return
LoadPhases == <<"load", "commit", "vacuum", "done">>

\* the record kept of a management command
\* the record kept of a management command; again: it replaced rows that came
\* from the very sources it read
Run(cmd, outcome, dis, pass, err, again) ==
    [cmd |-> cmd, outcome |-> outcome, disease_id |-> dis, pass |-> pass,
     err |-> err, again |-> again]

NoRun == Run("none", "none", NULL, 0, <<>>, FALSE)

\* MainSchema.load_locales_jhu (load_locales_geonames is empty)
\* what the foreign keys dis.dyn (locale_id) and dis.npi (locale_id) on
\* main.locale (id) may declare: the DELETE is refused while a row is
\* referenced, the check waits for the commit, or the referencing rows go too
FkActions == {"NO ACTION", "DEFERRED", "CASCADE"}

\* the rows of a table that reference one of the locale rows
Referencing(tbl, rows) == {r \in tbl : \E l \in rows : r.locale_id = l.id}

\* the foreign key raises: DELETE FROM locale hits a referenced row, or the
\* commit finds a row whose locale was not inserted again
FkRaises(fk, tbl, old, new) ==
    \/ fk = "NO ACTION" /\ Referencing(tbl, old) # {}
    \/ fk = "DEFERRED" /\ Referencing(tbl, old) \ Referencing(tbl, new) # {}

\* a referencing table without a foreign key
FkDeleted_NoFk(fk, tbl, old) == tbl

\* a referencing table after DELETE FROM locale
FkDeleted(fk, tbl, old) ==
    IF fk = "CASCADE" THEN tbl \ Referencing(tbl, old) ELSE tbl

LoadLocalesJhu ==
    /\ Idle
    /\ \E fk \in FkActions :
       LET rows == TransformRows(web.locales)
           new == LocaleReplaced(locale, rows)
       IN  IF /\ LocalePkeyOK(rows) /\ LocaleUniqueOK(rows)
              /\ ~FkRaises(fk, dyn, locale, new) /\ ~FkRaises(fk, npi, locale, new)
           THEN /\ locale' = new
                /\ dyn' = FkDeleted(fk, dyn, locale)
                /\ npi' = FkDeleted(fk, npi, locale)
                /\ run' = Run("load-main", "done", NULL, 0, <<>>,
                                loaded.locales = <<web.locales>>)
                /\ loaded' = [locales |-> <<web.locales>>,
                              dyn |-> IF dyn' = dyn THEN loaded.dyn ELSE <<>>,
                              npi |-> IF npi' = npi THEN loaded.npi ELSE <<>>]
                /\ trace' = <<"extract", "transform">> \o LoadPhases
           ELSE \* a statement raises and the process ends: nothing is committed
                /\ locale' = locale
                /\ dyn' = dyn
                /\ npi' = npi
                /\ run' = Run("load-main", "IntegrityError", NULL, 0, <<>>, FALSE)
                /\ loaded' = loaded
                /\ trace' = <<"extract", "transform", "load", "failed">>
    /\ UNCHANGED <<web, disease, npi_type, pc, dyn_load>>
    /\ UNCHANGED clientVars
    /\ UNCHANGED extVars

-----------------------------------------------------------------------------
(* The LocaleDB object (localedb.py) *)

Admin0Args == {"US", "Italy", NULL}
Admin1Args == {NULL, "Ohio"}
Admin2Args == {NULL, "Franklin"}
FipsArgs   == {NULL, "39", "39049", "06"}

Call(op, admin0, admin1, admin2, fips, matches, result) ==
    [op |-> op, admin0 |-> admin0, admin1 |-> admin1, admin2 |-> admin2,
     fips |-> fips, matches |-> matches, result |-> result]

NoCall == Call("none", NULL, NULL, NULL, NULL, 0, "none")

\* a None argument that is left out of the WHERE clause
NameMatches_NoneIsAny(admin0, admin1, admin2) ==
    {l \in locale : /\ SqlEq(l.admin0, admin0)
                    /\ (admin1 = NULL \/ SqlEq(l.admin1, admin1))
                    /\ (admin2 = NULL \/ SqlEq(l.admin2, admin2))}

NameMatches(admin0, admin1, admin2) ==
    {l \in locale : /\ SqlEq(l.admin0, admin0)
                    /\ NotDistinct(l.admin1, admin1)
                    /\ NotDistinct(l.admin2, admin2)}

UsFipsMatches(fips) ==
    {l \in locale : SqlEq(l.iso_num, "840") /\ NotDistinct(l.fips, fips)}

\* locale_id assigned from the query before the test, as set_disease does
ByNameNotFound_Assigned == [id |-> NULL, iso_num |-> locale_iso_num, fips |-> locale_fips]

\* what set_locale_by_name leaves in (locale_id, locale_iso_num, locale_fips)
\* when the query returned no row
ByNameNotFound == [id |-> locale_id, iso_num |-> locale_iso_num, fips |-> locale_fips]
\* the same for set_locale_by_us_fips
ByFipsNotFound == [id |-> locale_id, iso_num |-> locale_iso_num, fips |-> locale_fips]

\* LocaleDB.set_locale_by_name; fetchone() takes the first row of an unordered result
SetLocaleByName(admin0, admin1, admin2) ==
    LET m == NameMatches(admin0, admin1, admin2)
        c == Call("set_locale_by_name", admin0, admin1, admin2, NULL,
                  Cardinality(m), "ok")
    IN  /\ IF m = {}
           THEN /\ locale_id'      = ByNameNotFound.id
                /\ locale_iso_num' = ByNameNotFound.iso_num
                /\ locale_fips'    = ByNameNotFound.fips
                /\ call' = [c EXCEPT !.result = "UnknownLocaleError"]
           ELSE \E r \in m :
                /\ locale_id'      = r.id
                /\ locale_iso_num' = r.iso_num
                /\ locale_fips'    = r.fips
                /\ call' = c
        /\ UNCHANGED <<web, disease_id>>
        /\ UNCHANGED dbVars
        /\ UNCHANGED loaderVars
        /\ UNCHANGED <<trace, extVars>>

\* LocaleDB.set_locale_by_us_fips
SetLocaleByUsFips(fips) ==
    LET m == UsFipsMatches(fips)
        c == Call("set_locale_by_us_fips", NULL, NULL, NULL, fips,
                  Cardinality(m), "ok")
    IN  /\ IF m = {}
           THEN /\ locale_id'      = ByFipsNotFound.id
                /\ locale_iso_num' = ByFipsNotFound.iso_num
                /\ locale_fips'    = ByFipsNotFound.fips
                /\ call' = [c EXCEPT !.result = "UnknownLocaleError"]
           ELSE \E r \in m :
                /\ locale_id'      = r.id
                /\ locale_iso_num' = "840"
                /\ locale_fips'    = fips
                /\ call' = c
        /\ UNCHANGED <<web, disease_id>>
        /\ UNCHANGED dbVars
        /\ UNCHANGED loaderVars
        /\ UNCHANGED <<trace, extVars>>

-----------------------------------------------------------------------------
(* Disease dynamics: DiseaseSchema.load_covid_19, load_covid_19_dyn(_ds) *)

DateColGlob == 4     \* date_col_idx_0 of the global time series
DateColUs   == 12    \* date_col_idx_0 of the US time series

Blank(n) == [i \in 1..n |-> ""]

GlobHeader(days) == <<"Province/State", "Country/Region", "Lat", "Long">> \o days
UsHeader(days)   == <<"UID">> \o Blank(DateColUs - 1) \o days
GlobRow(province, country, cells) == <<province, country>> \o Blank(DateColGlob - 2) \o cells
UsRow(uid, cells) == <<uid>> \o Blank(DateColUs - 1) \o cells

File(header, rows) == [header |-> header, rows |-> rows]

\* the five passes of load_covid_19_dyn, in the order of the calls
Passes == <<
    [url |-> "conf_glob", col |-> "n_conf", is_glob |-> TRUE,  date_col |-> DateColGlob],
    [url |-> "dead_glob", col |-> "n_dead", is_glob |-> TRUE,  date_col |-> DateColGlob],
    [url |-> "rec_glob",  col |-> "n_rec",  is_glob |-> TRUE,  date_col |-> DateColGlob],
    [url |-> "conf_us",   col |-> "n_conf", is_glob |-> FALSE, date_col |-> DateColUs],
    [url |-> "dead_us",   col |-> "n_dead", is_glob |-> FALSE, date_col |-> DateColUs] >>

DynCols == {"n_conf", "n_dead", "n_rec"}

\* a row of dis.dyn / dyn_load holding one column
NewDynRow(dis, loc, day, day_i, col, v) ==
    [disease_id |-> dis, locale_id |-> loc, day |-> day, day_i |-> day_i,
     n_conf |-> IF col = "n_conf" THEN v ELSE NULL,
     n_dead |-> IF col = "n_dead" THEN v ELSE NULL,
     n_rec  |-> IF col = "n_rec"  THEN v ELSE NULL]

SameDynKey(r, dis, loc, day) ==
    SqlEq(r.disease_id, dis) /\ SqlEq(r.locale_id, loc) /\ SqlEq(r.day, day)

\* a plain INSERT into a table without the key
Upsert_PlainInsert(tbl, dis, loc, day, day_i, col, v) ==
    tbl \cup {NewDynRow(dis, loc, day, day_i, col, v)}

\* INSERT INTO dyn_load ... ON CONFLICT ON CONSTRAINT dyn_load_pkey
\* DO UPDATE SET col = v WHERE the key is that of the row
Upsert(tbl, dis, loc, day, day_i, col, v) ==
    IF \E r \in tbl : SameDynKey(r, dis, loc, day)
    THEN {IF SameDynKey(r, dis, loc, day) THEN [r EXCEPT ![col] = v] ELSE r : r \in tbl}
    ELSE tbl \cup {NewDynRow(dis, loc, day, day_i, col, v)}

\* the execute_batch over j in range(date_col_idx_0, len(r))
RECURSIVE UpsertCells(_, _, _, _, _, _, _)
UpsertCells(tbl, dis, loc, header, r, p, j) ==
    IF j >= Len(r) THEN tbl
    ELSE UpsertCells(Upsert(tbl, dis, loc, Cell(header, j), j - p.date_col + 1,
                            p.col, Cell(r, j)),
                     dis, loc, header, r, p, j + 1)

\* the SELECT id FROM locale of one source row
DynLocaleMatches(r, is_glob) ==
    IF is_glob
    THEN {l \in locale : /\ NotDistinct(l.admin0, Cell(r, 1))
                         /\ NotDistinct(l.admin1, Cell(r, 0))
                         /\ l.admin2 = NULL}
    ELSE {l \in locale : SqlEq(l.id, Cell(r, 0))}

\* fetchone(): None, or the first row (the only one: both lookups are by a
\* unique key of main.locale)
FetchOne(m) == IF m = {} THEN NULL ELSE (CHOOSE l \in m : TRUE).id

\* the loop over the rows of one pass, from row i (0-based): the table it leaves,
\* or the row for which no locale was found
RECURSIVE LoadDynRows(_, _, _, _, _, _)
LoadDynRows(tbl, dis, header, rows, p, i) ==
    IF i >= Len(rows) THEN [ok |-> TRUE, tbl |-> tbl, row |-> <<>>]
    ELSE LET r   == Cell(rows, i)
             loc == FetchOne(DynLocaleMatches(r, p.is_glob))
         IN  IF loc = NULL
             THEN [ok |-> FALSE, tbl |-> tbl, row |-> r]
             ELSE LoadDynRows(UpsertCells(tbl, dis, loc, header, r, p, p.date_col),
                              dis, header, rows, p, i + 1)

CovidName == "COVID-19"

\* the values of the id sequence of dis.disease, as read back
SerialIds == <<"1", "2", "3">>

DiseaseIdOf(tbl, name) == (CHOOSE d \in tbl : d.name = name).id

\* INSERT INTO disease (name) VALUES ('COVID-19') ON CONFLICT DO NOTHING
DiseaseInserted(tbl, name) ==
    IF \E d \in tbl : d.name = name THEN tbl
    ELSE tbl \cup {[id |-> SerialIds[Cardinality(tbl) + 1], name |-> name]}

\* load_covid_19 up to the first pass: the disease row is committed, then
\* load_covid_19_dyn creates the temporary table
LoadCovid19 ==
    /\ Idle
    /\ disease' = DiseaseInserted(disease, CovidName)
    /\ dyn_load' = {}
    /\ pc' = "dyn"
    /\ run' = Run("load-dis", "running", DiseaseIdOf(disease', CovidName), 1, <<>>,
                FALSE)
    /\ trace' = <<>>
    /\ UNCHANGED <<web, locale, dyn, npi, npi_type, loaded>>
    /\ UNCHANGED clientVars
    /\ UNCHANGED extVars

\* the DELETE of the consolidation issued and committed before the passes
DynOnFailure_Deleted(tbl, dis) == {r \in tbl : ~ SqlEq(r.disease_id, dis)}

\* dis.dyn when a pass ends the load: rollback() and sys.exit(1), or an exception
DynOnFailure(tbl, dis) == tbl

\* one call of load_covid_19_dyn_ds
LoadCovid19DynDs ==
    /\ pc = "dyn"
    /\ LET p   == Passes[run.pass]
           f   == web.dyn[p.url]
           res == LoadDynRows(dyn_load, run.disease_id, f.header,
                              TransformRows(f.rows), p, 0)
       IN  IF res.ok
           THEN /\ dyn_load' = res.tbl
                /\ dyn' = dyn
                /\ IF run.pass < Len(Passes)
                   THEN pc' = "dyn" /\ run' = [run EXCEPT !.pass = @ + 1]
                   ELSE pc' = "consolidate" /\ run' = run
                /\ trace' = trace \o ResolvePhases
           ELSE /\ dyn_load' = {}
                /\ dyn' = DynOnFailure(dyn, run.disease_id)
                /\ pc' = "idle"
                /\ run' = [run EXCEPT !.outcome = "exit(1)",
                                      !.err = Prefix(res.row, 7)]
                /\ trace' = trace \o ResolvePhases \o <<"failed">>
    /\ locale' = LocaleSelected(locale)
    /\ UNCHANGED <<web, disease, npi, npi_type, loaded>>
    /\ UNCHANGED clientVars
    /\ UNCHANGED extVars

\* urlopen() of a pass raises: the exception ends the process
LoadCovid19DynDsNoFile ==
    /\ pc = "dyn"
    /\ dyn_load' = {}
    /\ dyn' = DynOnFailure(dyn, run.disease_id)
    /\ pc' = "idle"
    /\ run' = [run EXCEPT !.outcome = "URLError"]
    /\ trace' = trace \o <<"extract", "failed">>
    /\ UNCHANGED <<web, locale, disease, npi, npi_type, loaded>>
    /\ UNCHANGED clientVars
    /\ UNCHANGED extVars

\* DELETE FROM dyn WHERE disease_id = %s; INSERT INTO dyn SELECT * FROM dyn_load
Consolidated(tbl, load, dis) ==
    {r \in tbl : ~ SqlEq(r.disease_id, dis)} \cup load

\* the end of load_covid_19_dyn: consolidate, commit, vacuum
LoadCovid19DynConsolidate ==
    /\ pc = "consolidate"
    /\ dyn' = Consolidated(dyn, dyn_load, run.disease_id)
    /\ dyn_load' = dyn_load
    /\ pc' = "npi"
    /\ loaded' = [loaded EXCEPT !.dyn = <<web.dyn, locale>>]
    /\ run' = [run EXCEPT !.pass = 0, !.again = (loaded.dyn = <<web.dyn, locale>>)]
    /\ trace' = trace \o LoadPhases
    /\ UNCHANGED <<web, locale, disease, npi, npi_type>>
    /\ UNCHANGED clientVars
    /\ UNCHANGED extVars

-----------------------------------------------------------------------------
(* Keystone NPIs: DiseaseSchema.load_covid_19_npi_keystone *)

\* columns: fips, county, state, npi, start_date, end_date, citation, note,
\*          and two more text columns
NpiRow(fips, county, state, type, start, end, c6, c7, c8, c9) ==
    <<fips, county, state, type, start, end, c6, c7, c8, c9>>

\* str.lower() on the cell values that occur
Lower(c) ==
    CASE c = "T"     -> "t"
      [] c = "F"     -> "f"
      [] c = "True"  -> "true"
      [] c = "FALSE" -> "false"
      [] OTHER       -> c

TfWords == {"t", "f", "true", "false"}

\* str.replace('_', ' ') on the type labels that occur
ReplaceUnderscore(c) ==
    CASE c = "shelter_in_place" -> "shelter in place"
      [] c = "school_closure"   -> "school closure"
      [] OTHER                  -> c

\* the rows kept by "if r[4] != ''", transformed
NpiKept(rows) == TransformRows(SelectSeq(rows, LAMBDA r : Cell(r, 4) # ""))

\* columns 6-9 holding 't', 'f', 'true' or 'false' are set to None
NpiCleaned(r) ==
    [k \in DOMAIN r |->
        IF (k - 1) \in {6, 7, 8, 9} /\ r[k] # NULL /\ Lower(r[k]) \in TfWords
        THEN NULL ELSE r[k]]

\* the county of FIPS 35013 is corrected
NpiCorrected(r) == IF Cell(r, 0) = "35013" THEN [r EXCEPT ![2] = "Dona Ana"] ELSE r

\* ids counted from 1
TypeId_OneBased(types, label) ==
    IF \E k \in DOMAIN types : types[k] = label
    THEN CHOOSE k \in DOMAIN types : types[k] = label
    ELSE -1

\* types[label], or -1 when the label is not a key of the types dict; the dict
\* is the sequence of its keys, each key's value its 0-based position
TypeId(types, label) ==
    IF \E k \in DOMAIN types : types[k] = label
    THEN (CHOOSE k \in DOMAIN types : types[k] = label) - 1
    ELSE -1

\* r[3] = types[r[3]]
NpiTyped(r, id) == [k \in DOMAIN r |-> IF k - 1 = 3 THEN id ELSE r[k]]

\* SELECT id FROM locale WHERE admin0 = 'US' AND admin1 = state
\*                         AND admin2 IS NOT DISTINCT FROM county
NpiLocaleMatches(state, county) ==
    {l \in locale : /\ SqlEq(l.admin0, "US")
                    /\ SqlEq(l.admin1, state)
                    /\ NotDistinct(l.admin2, county)}

\* a test that lets the empty result through
NpiMatchOK_AtMostOne(n) == n <= 1

\* the test made on the number of rows fetchall() returned
NpiMatchOK(n) == n = 1

\* the loop over the kept rows, from row i (0-based)
RECURSIVE NpiResolve(_, _, _, _)
NpiResolve(rows, i, types, out) ==
    IF i >= Len(rows) THEN [outcome |-> "ok", rows |-> out, types |-> types, err |-> <<>>]
    ELSE LET r0 == NpiCorrected(NpiCleaned(Cell(rows, i)))
         IN  IF Cell(r0, 3) = NULL
             THEN [outcome |-> "AttributeError", rows |-> out, types |-> types, err |-> <<>>]
             ELSE
             LET label  == ReplaceUnderscore(Cell(r0, 3))
                 types1 == IF TypeId(types, label) = -1 THEN Append(types, label) ELSE types
                 r1     == NpiTyped(r0, TypeId(types1, label))
                 m      == NpiLocaleMatches(Cell(r1, 2), Cell(r1, 1))
             IN  IF ~ NpiMatchOK(Cardinality(m))
                 THEN [outcome |-> "ETLError", rows |-> out, types |-> types1,
                       err |-> <<i, Cardinality(m), Cell(r1, 0), Cell(r1, 2), Cell(r1, 1)>>]
                 ELSE IF m = {}
                 THEN \* rr[0][0] of an empty list
                      [outcome |-> "IndexError", rows |-> out, types |-> types1,
                       err |-> <<>>]
                 ELSE NpiResolve(rows, i + 1, types1,
                                 Append(out, Append(r1, (CHOOSE l \in m : TRUE).id)))

\* list(dict.fromkeys(rows)): duplicates removed, first occurrences kept in order
RECURSIVE Dedup(_)
Dedup(rows) ==
    IF rows = <<>> THEN <<>>
    ELSE LET init == Dedup(SubSeq(rows, 1, Len(rows) - 1))
             last == rows[Len(rows)]
         IN  IF \E k \in DOMAIN init : init[k] = last THEN init ELSE Append(init, last)

\* the VALUES of the INSERT INTO npi
NpiRec(dis, r) ==
    [disease_id |-> dis, locale_id |-> Cell(r, 10), type_id |-> Cell(r, 3),
     begin_date |-> Cell(r, 4), end_date |-> Cell(r, 5),
     begin_citation |-> Cell(r, 6), begin_note |-> Cell(r, 7),
     end_citation |-> Cell(r, 9), end_note |-> Cell(r, 8)]

\* DELETE FROM npi; INSERT ... ON CONFLICT DO NOTHING
NpiReplaced(old, dis, rows) == {NpiRec(dis, rows[k]) : k \in DOMAIN rows}

\* DELETE FROM npi_type; INSERT the types dict
NpiTypeReplaced(old, types) == {[id |-> k - 1, name |-> types[k]] : k \in DOMAIN types}

\* the two DELETEs issued and committed before the resolution loop
NpiOnFailure_Deleted(old_npi, old_type, res) == [npi |-> {}, npi_type |-> {}]

\* npi and npi_type when the resolution loop raised
NpiOnFailure(old_npi, old_type, res) == [npi |-> old_npi, npi_type |-> old_type]

\* load_covid_19_npi: load_covid_19_npi_keystone, then the process ends
LoadCovid19NpiKeystone ==
    /\ pc = "npi"
    /\ LET res == NpiResolve(NpiKept(web.npi), 0, <<>>, <<>>)
       IN  IF res.outcome = "ok"
           THEN /\ npi' = NpiReplaced(npi, run.disease_id, Dedup(res.rows))
                /\ npi_type' = NpiTypeReplaced(npi_type, res.types)
                /\ loaded' = [loaded EXCEPT !.npi = <<web.npi, locale>>]
                /\ run' = [run EXCEPT !.outcome = "done"]
                /\ trace' = ResolvePhases \o <<"transform">> \o LoadPhases
           ELSE /\ npi' = NpiOnFailure(npi, npi_type, res).npi
                /\ npi_type' = NpiOnFailure(npi, npi_type, res).npi_type
                /\ loaded' = loaded
                /\ run' = [run EXCEPT !.outcome = res.outcome, !.err = res.err]
                /\ trace' = IF res.outcome = "ETLError"
                            THEN ResolvePhases \o <<"failed">>
                            ELSE <<"extract", "transform", "failed">>
    /\ pc' = "idle"
    /\ dyn_load' = {}
    /\ locale' = LocaleSelected(locale)
    /\ UNCHANGED <<web, disease, dyn>>
    /\ UNCHANGED clientVars
    /\ UNCHANGED extVars

-----------------------------------------------------------------------------
(* The source files *)

\* number of date columns of the time series files
NDays == 2

Days == SubSeq(<<"1/22/20", "1/23/20", "1/24/20", "1/25/20">>, 1, NDays)

\* the cells of one row under the date columns: the pattern, repeated
Cells(pat) == [i \in 1..NDays |-> pat[((i - 1) % Len(pat)) + 1]]

NoRows(is_glob) == File(IF is_glob THEN GlobHeader(Days) ELSE UsHeader(Days), <<>>)

DynFiles(conf_glob, dead_glob, rec_glob, conf_us, dead_us) ==
    [conf_glob |-> File(GlobHeader(Days), conf_glob),
     dead_glob |-> File(GlobHeader(Days), dead_glob),
     rec_glob  |-> File(GlobHeader(Days), rec_glob),
     conf_us   |-> File(UsHeader(Days), conf_us),
     dead_us   |-> File(UsHeader(Days), dead_us)]

\* countries in the global files, a county in the US files
DynSeparate ==
    DynFiles(<<GlobRow("", "Italy", Cells(<<"10", "20">>)), GlobRow("", "US", Cells(<<"1", "">>))>>,
             <<GlobRow("", "Italy", Cells(<<"2", "">>))>>,
             <<GlobRow("", "Italy", Cells(<<"", "5">>))>>,
             <<UsRow("39049", Cells(<<"7", "8">>))>>,
             <<UsRow("39049", Cells(<<"1", "1">>))>>)

\* a state that the global files and the US files both list
DynShared ==
    DynFiles(<<GlobRow("Ohio", "US", Cells(<<"10", "11">>))>>,
             <<GlobRow("Ohio", "US", Cells(<<"2", "3">>))>>,
             <<>>,
             <<UsRow("39", Cells(<<"", "12">>))>>,
             <<UsRow("39", Cells(<<"4", "">>))>>)

\* a country main.locale does not hold, in the second pass
DynUnknownCountry ==
    DynFiles(<<GlobRow("", "Italy", Cells(<<"10", "20">>))>>,
             <<GlobRow("", "Italy", Cells(<<"2", "2">>)), GlobRow("", "Atlantis", Cells(<<"1", "1">>))>>,
             <<>>, <<>>, <<>>)

\* a UID main.locale does not hold, in the last pass
DynUnknownUid ==
    DynFiles(<<GlobRow("", "US", Cells(<<"3", "4">>))>>, <<>>, <<>>,
             <<UsRow("39", Cells(<<"7", "8">>))>>,
             <<UsRow("39", Cells(<<"1", "1">>)), UsRow("12345", Cells(<<"1", "1">>))>>)

DynWorlds == {DynSeparate, DynShared, DynUnknownCountry, DynUnknownUid}

\* two types, a row without start date, a duplicate row, stray booleans
NpiGood == <<
    NpiRow("39",    "",         "Ohio", "shelter_in_place", "3/22/20", "",        "url1", "True", "", ""),
    NpiRow("39049", "Franklin", "Ohio", "school_closure",   "3/16/20", "5/1/20",  "url2", "note", "f", "url3"),
    NpiRow("39049", "Franklin", "Ohio", "gatherings",       "",        "",        "",     "",     "", ""),
    NpiRow("39",    "",         "Ohio", "shelter_in_place", "3/22/20", "",        "url1", "T",    "", ""),
    NpiRow("39",    "",         "Ohio", "school closure",   "3/17/20", "",        "",     "",     "", "") >>

\* the third kept row names a county main.locale does not hold
NpiUnknownCounty == <<
    NpiRow("39",    "",          "Ohio",       "shelter_in_place", "3/22/20", "", "", "", "", ""),
    NpiRow("39001", "Adams",     "Ohio",       "school_closure",   "",        "", "", "", "", ""),
    NpiRow("39049", "Franklin",  "Ohio",       "school_closure",   "3/16/20", "", "", "", "", ""),
    NpiRow("35013", "Do?a Ana",  "New Mexico", "gatherings",       "3/20/20", "", "", "", "", "") >>

\* a later edition: one row, of a type the earlier edition has no kept row of
NpiLater == <<
    NpiRow("39",    "",         "Ohio", "gatherings",       "4/1/20",  "",        "",     "",     "", "") >>

NpiFiles == {NpiGood, NpiUnknownCounty, NpiLater}

\* lookup files: with and without Franklin, and one listing Ohio twice
LocaleFiles ==
    {PickSeq(JhuLookup, S) : S \in {{1, 2, 3, 5}, {1, 2, 5}, {1, 2, 3, 6}}}

World(l, d, n) == [locales |-> l, dyn |-> d, npi |-> n]

Worlds == {World(l, d, n) : l \in LocaleFiles, d \in DynWorlds, n \in NpiFiles}

ClientWorlds == {World(l, DynSeparate, NpiGood) : l \in AllLocaleFiles}

\* an upstream repository publishes new files between two commands
UpstreamUpdate ==
    /\ Idle
    /\ web' \in Worlds \ {web}
    /\ trace' = trace
    /\ UNCHANGED dbVars
    /\ UNCHANGED loaderVars
    /\ UNCHANGED clientVars
    /\ UNCHANGED extVars

-----------------------------------------------------------------------------
(* Specifications *)

\* per table: <<>>, or the sources (and the locale table) its rows were loaded from
NothingLoaded == [locales |-> <<>>, dyn |-> <<>>, npi |-> <<>>]

InitDb ==
    /\ locale = {} /\ disease = {} /\ dyn = {} /\ npi = {} /\ npi_type = {}
    /\ pc = "idle" /\ dyn_load = {} /\ run = NoRun /\ loaded = NothingLoaded

\* the seven tables of the pop schema, in the order of COUNTY_TXT_FILES
PopTables == <<"school", "hospital", "household", "gq", "workplace", "person", "gq_person">>

\* the record kept of a fact or population command
\* again: it read the very input of the command before it, which had ended normally
Job(cmd, input, arg, outcome, dropped, again) ==
    [cmd |-> cmd, input |-> input, arg |-> arg, outcome |-> outcome,
     dropped |-> dropped, again |-> again]

NoJob == Job("none", <<>>, NULL, "none", {}, FALSE)

\* download_noaa before its first statement
NoaaIdle == [i |-> 0, max_tries |-> 0, attempts |-> 0, failures |-> 0, delay |-> 0,
             outcome |-> "none"]

\* the two downloads of scripts/airtraffic.py: domestic, then international
AirUrls == <<[name |-> "982825318_T_T100D_MARKET_US_CARRIER_ONLY", ext |-> "zip"],
             [name |-> "982825318_T_T100I_MARKET_ALL_CARRIER", ext |-> "zip"]>>

\* the failed attempts after which the script gives up on a URL
AirMaxTries == 2

\* scripts/airtraffic.py before its first download
AirIdle == [pc |-> "idle", url |-> 0, tries |-> 0, downloaded |-> FALSE, attempts |-> 0,
            data |-> NULL, written |-> <<>>]

\* the schemas of the fact and population loaders, empty
InitExt ==
    /\ trace = <<>>
    /\ vax_age = {} /\ vax_race = {} /\ vax_vax = {}
    /\ health_measures = {} /\ health = {}
    /\ weather = {} /\ mobility = {}
    /\ pop = [t \in {PopTables[k] : k \in DOMAIN PopTables} |-> {}]
    /\ noaa = NoaaIdle
    /\ job = NoJob
    /\ air = AirIdle

\* LocaleDB.__init__
InitObject ==
    /\ locale_id = NULL /\ locale_iso_num = UNSET /\ locale_fips = NULL
    /\ disease_id = NULL /\ call = NoCall

Init == web \in Worlds /\ InitDb /\ InitObject /\ InitExt

Next ==
    \/ UpstreamUpdate
    \/ LoadLocalesJhu
    \/ LoadCovid19
    \/ LoadCovid19DynDs
    \/ LoadCovid19DynDsNoFile
    \/ LoadCovid19DynConsolidate
    \/ LoadCovid19NpiKeystone

Spec == Init /\ [][Next]_vars

InitClient == web \in ClientWorlds /\ InitDb /\ InitObject /\ InitExt

NextClient ==
    \/ LoadLocalesJhu
    \/ \E a0 \in Admin0Args, a1 \in Admin1Args, a2 \in Admin2Args : SetLocaleByName(a0, a1, a2)
    \/ \E f \in FipsArgs : SetLocaleByUsFips(f)

SpecClient == InitClient /\ [][NextClient]_vars

-----------------------------------------------------------------------------
(* Properties *)

DynKeyOf(r) == <<r.disease_id, r.locale_id, r.day>>

\* the passes that write column c
PassesOf(c) == {k \in DOMAIN Passes : Passes[k].col = c}

\* the cells that pass k holds for the locale and the day
PassCells(k, loc, day) ==
    LET p    == Passes[k]
        f    == web.dyn[p.url]
        rows == TransformRows(f.rows)
    IN  {Cell(rows[i], j) : <<i, j>> \in
            {x \in (DOMAIN rows) \X (0..(Len(f.header) - 1)) :
                /\ x[2] >= p.date_col
                /\ x[2] < Len(rows[x[1]])
                /\ Cell(f.header, x[2]) = day
                /\ FetchOne(DynLocaleMatches(rows[x[1]], p.is_glob)) = loc}}

\* the non-null values the passes contribute to column c of a key
Contributed(loc, day, c) == (UNION {PassCells(k, loc, day) : k \in PassesOf(c)}) \ {NULL}

\* the keys the passes of this run touch
SourceKeys(dis) ==
    {<<dis, loc, day>> : <<loc, day>> \in
        {x \in {l.id : l \in locale} \X SeqToSet(Days) :
            \E k \in DOMAIN Passes : PassCells(k, x[1], x[2]) # {}}}

\* C1: when all passes of load_covid_19_dyn have run, every key of dyn_load has one
\* row, and each of n_conf, n_dead, n_rec for which some pass contributed a
\* non-null value holds a contributed non-null value (never null).
C1_ColumnwiseMerge ==
    pc = "consolidate" =>
        \A r \in dyn_load :
            /\ \A q \in dyn_load : DynKeyOf(q) = DynKeyOf(r) => q = r
            /\ \A c \in DynCols :
                   Contributed(r.locale_id, r.day, c) # {}
                       => r[c] \in Contributed(r.locale_id, r.day, c)

\* C2: a consolidation leaves one row per key of the sources and no other key of
\* the disease, and when the rows it replaces came from the same source files and
\* Locale table it leaves dis.dyn as it was.
C2_ReloadIdempotent ==
    [][LoadCovid19DynConsolidate =>
        LET mine == {r \in dyn' : r.disease_id = run.disease_id}
        IN  /\ \A r, q \in mine : DynKeyOf(r) = DynKeyOf(q) => r = q
            /\ {DynKeyOf(r) : r \in mine} = SourceKeys(run.disease_id)
            /\ (loaded.dyn = <<web.dyn, locale>> => dyn' = dyn)]_vars

C2_Witness ==
    /\ run.cmd = "load-dis" /\ pc = "npi" /\ run.again
    /\ dyn # {}

\* C3: a successful load_locales_jhu leaves as many rows as the source has, no row
\* whose id the source does not hold, and, when the table was loaded from the same
\* source, the table as it was.
C3_LocaleFullReplace ==
    [][(LoadLocalesJhu /\ run'.outcome = "done") =>
        /\ Cardinality(locale') = Len(web.locales)
        /\ \A l \in locale' : \E i \in DOMAIN web.locales : l.id = Cell(web.locales[i], 0)
        /\ (loaded.locales = <<web.locales>> => locale' = locale)]_vars

C3_Witness ==
    /\ run.cmd = "load-main" /\ run.outcome = "done" /\ run.again
    /\ locale # {}

\* C4: no two rows of main.locale have the same (admin0, admin1, admin2), two NULLs
\* counting as equal.
C4_LocaleTripleUnique ==
    \A l, m \in locale :
        (l.admin0 = m.admin0 /\ l.admin1 = m.admin1 /\ l.admin2 = m.admin2) => l = m

C4_Witness ==
    /\ run.cmd = "load-main" /\ run.outcome = "IntegrityError"
    /\ ~ LocaleUniqueOK(TransformRows(web.locales))
    /\ locale # {}

\* C5: after a successful set_locale_by_name the selected locale is a row whose
\* admin0, admin1, admin2 are the arguments, NULL for None; and the lookup of a
\* global dynamics row selects only rows with that country, that province and
\* no county.
C5_ExactNameResolution ==
    /\ (call.op = "set_locale_by_name" /\ call.result = "ok") =>
           \E l \in locale :
               /\ l.id = locale_id /\ l.iso_num = locale_iso_num /\ l.fips = locale_fips
               /\ l.admin0 = call.admin0 /\ l.admin1 = call.admin1
               /\ l.admin2 = call.admin2
    /\ \A country \in Admin0Args \ {NULL}, province \in Admin1Args :
           \A l \in DynLocaleMatches(TransformRow(GlobRow(
                        IF province = NULL THEN "" ELSE province, country, <<>>)), TRUE) :
               l.admin0 = country /\ l.admin1 = province /\ l.admin2 = NULL

C5_Witness ==
    /\ call.op = "set_locale_by_name" /\ call.result = "ok"
    /\ call.admin0 = "US" /\ call.admin1 = "Ohio" /\ call.admin2 = NULL
    /\ locale_id = "39"
    /\ \E l \in locale : l.admin0 = "US" /\ l.admin1 = "Ohio" /\ l.admin2 = "Franklin"

\* C6: an exact resolution whose key matches more than one Locale row ends in an
\* integrity error.
C6_AmbiguousFailsLoudly ==
    (call.op \in {"set_locale_by_name", "set_locale_by_us_fips"} /\ call.matches > 1)
        => call.result = "LocaleIntegrityError"

\* C7: set_locale_by_name and set_locale_by_us_fips raise UnknownLocaleError when
\* no row matches, and then leave locale_id, locale_iso_num and locale_fips as
\* they were.
C7_NotFoundNoSideEffect ==
    [][(call'.op \in {"set_locale_by_name", "set_locale_by_us_fips"}
        /\ call'.matches = 0) =>
            /\ call'.result = "UnknownLocaleError"
            /\ locale_id' = locale_id
            /\ locale_iso_num' = locale_iso_num
            /\ locale_fips' = locale_fips]_vars

C7_Witness ==
    /\ call.op \in {"set_locale_by_name", "set_locale_by_us_fips"}
    /\ call.result = "UnknownLocaleError"
    /\ locale_id # NULL

\* the kept NPI rows as they are when their locale is looked up
NpiLookedUp == LET rows == NpiKept(web.npi)
               IN  [i \in DOMAIN rows |-> NpiCorrected(NpiCleaned(rows[i]))]

NpiMatchesOf(r) == NpiLocaleMatches(Cell(r, 2), Cell(r, 1))

\* 0-based ordinals of the kept rows whose lookup does not return one row
NpiBadRows == {i - 1 : i \in {k \in DOMAIN NpiLookedUp :
                                 Cardinality(NpiMatchesOf(NpiLookedUp[k])) # 1}}

C9_NpiNoPartialCommit ==
    [][(LoadCovid19NpiKeystone /\ run'.outcome = "ETLError") =>
        /\ npi' = npi /\ npi_type' = npi_type
        /\ \E d \in disease' : d.id = run.disease_id /\ d.name = CovidName
        /\ dyn' = dyn
        /\ dyn_load \subseteq dyn']_vars

C9_Witness ==
    /\ run.cmd = "load-dis" /\ run.outcome = "ETLError"
    /\ npi # {} /\ npi_type # {} /\ dyn # {}

\* a row of the pass about to run has no Locale row
PassUnresolved ==
    LET p == Passes[run.pass]
        rows == TransformRows(web.dyn[p.url].rows)
    IN  \E i \in DOMAIN rows : DynLocaleMatches(rows[i], p.is_glob) = {}

\* C10: no step of the passes changes dis.dyn; a pass with a row that has no
\* Locale row, or one that cannot read its file, ends the command; and a load
\* of disease dynamics changes dis.dyn only by the delete and the insert of the
\* consolidation together.
C10_DynAtomicSwap ==
    [][/\ pc = "dyn" => dyn' = dyn
       /\ (LoadCovid19DynDs /\ PassUnresolved) =>
              (pc' = "idle" /\ run'.outcome = "exit(1)" /\ dyn_load' = {})
       /\ LoadCovid19DynDsNoFile => (pc' = "idle" /\ run'.outcome = "URLError")
       /\ (dyn' # dyn /\ ~ LoadLocalesJhu) =>
              /\ pc = "consolidate"
              /\ dyn' = {r \in dyn : r.disease_id # run.disease_id} \cup dyn_load
      ]_vars

C10_Witness ==
    /\ run.cmd = "load-dis" /\ run.outcome = "exit(1)" /\ pc = "idle"
    /\ dyn # {}

-----------------------------------------------------------------------------
(* The orchestrated disease load and the phases of one dataset load *)

\* the last command was load_covid_19 and ended in its dynamics load
DynLoadFailed ==
    /\ Idle
    /\ run.cmd = "load-dis"
    /\ run.outcome \in {"exit(1)", "URLError"}

\* C18: in load_covid_19 a failure of the dynamics load does not prevent the
\* NPI load from running: no load_covid_19 command ends at the failure of
\* its dynamics load, the NPI load follows it.
C18_DynFailureNpiStillRuns == ~ DynLoadFailed

\* C19: when load_covid_19_dyn runs while main.locale is empty, the load
\* fails before it resolves rows one by one, and its outcome is not the
\* locale-not-found outcome (exit(1) after "Locale not been found") of a
\* single unmatched row.
C19_PrerequisiteDiagnosed ==
    (Idle /\ run.cmd = "load-dis" /\ locale = {})
        => /\ run.outcome # "exit(1)"
           /\ \A i \in DOMAIN trace : trace[i] # "resolve"

\* the dataset load the trace belongs to has returned or has ended the process
TraceFinished == trace # <<>> /\ trace[Len(trace)] \in {"done", "failed"}

\* the order the claim and its amendment share: extract comes first, every
\* row is extracted, transformed and resolved before the target table is
\* written, the commit follows the write, the vacuum the commit, done the vacuum
PhaseStructure ==
    /\ trace # <<>> => trace[1] = "extract"
    /\ \A i \in DOMAIN trace :
          /\ trace[i] = "load" =>
                \A j \in DOMAIN trace :
                    trace[j] \in {"extract", "transform", "resolve"} => j < i
          /\ trace[i] = "commit" => i > 1 /\ trace[i - 1] = "load"
          /\ trace[i] = "vacuum" => i > 1 /\ trace[i - 1] = "commit"
          /\ trace[i] = "done"   => i > 1 /\ trace[i - 1] = "vacuum"
          /\ trace[i] \in {"done", "failed"} => i = Len(trace)
    /\ (pc = "npi" \/ (Idle /\ run.outcome = "done")) => trace[Len(trace)] = "done"
    /\ (Idle /\ run.outcome \notin {"done", "none"}) => trace[Len(trace)] = "failed"
    /\ pc \in {"dyn", "consolidate"} => ~ TraceFinished

-----------------------------------------------------------------------------
(* Synthetic population: PopSchema.load_state *)

\* COUNTY_TXT_FILES: the table, whether the lines are filtered by ln_re, and
\* the column that holds the geographic key
CountyTxtFiles == <<
    [tbl |-> "school",    filter |-> FALSE, geo |-> "stco"],
    [tbl |-> "hospital",  filter |-> TRUE,  geo |-> "none"],
    [tbl |-> "household", filter |-> FALSE, geo |-> "stcotrbg"],
    [tbl |-> "gq",        filter |-> FALSE, geo |-> "stcotrbg"],
    [tbl |-> "workplace", filter |-> FALSE, geo |-> "none"],
    [tbl |-> "person",    filter |-> FALSE, geo |-> "none"],
    [tbl |-> "gq_person", filter |-> FALSE, geo |-> "none"] >>

\* a line of a county file: its id, its geographic key <<state, county>> (NULL
\* in a file without one), the other cells, and whether it has the shape of ln_re
PopLine(id, geo, v, ok) == [id |-> id, geo |-> geo, v |-> v, ok |-> ok]

PopHeader == "sp_id"

\* is_col('st_id', tbl): the tables tagged with the state and county locale ids
HasStId(tbl) == tbl \in {"school", "household", "gq"}

\* UPDATE tmp x SET st_id = l.id FROM main.locale l WHERE l.fips = substring(...)
FipsId(loc, code) ==
    IF \E l \in loc : SqlEq(l.fips, code)
    THEN (CHOOSE l \in loc : SqlEq(l.fips, code)).id
    ELSE NULL

\* no key on the destination table
PopConflict_NoKey(tbl, r) == FALSE

\* ON CONFLICT: the destination table is keyed by the source's id
PopConflict(tbl, r) == \E x \in tbl : x.row.id = r.id

\* the row of tmp_{tbl} made of a line: COPY, then the UPDATEs of st_id and co_id
PopRow(ctf, loc, ln) ==
    [id |-> ln.id, geo |-> ln.geo, v |-> ln.v,
     st_id |-> IF HasStId(ctf.tbl) /\ ctf.geo # "none"
               THEN FipsId(loc, ln.geo[1]) ELSE NULL,
     co_id |-> IF HasStId(ctf.tbl) /\ ctf.geo # "none"
               THEN FipsId(loc, ln.geo[1] \o ln.geo[2]) ELSE NULL]

\* INSERT INTO pop.{tbl} SELECT * FROM tmp_{tbl} ON CONFLICT DO NOTHING; a stored
\* row is the inserted row and the place it takes in the table
RECURSIVE InsertIfAbsent(_, _)
InsertIfAbsent(tbl, rows) ==
    IF rows = <<>> THEN tbl
    ELSE InsertIfAbsent(
            IF PopConflict(tbl, Head(rows)) THEN tbl
            ELSE tbl \cup {[row |-> Head(rows), at |-> Cardinality(tbl) + 1]},
            Tail(rows))

\* the stored rows without their places
PopRowsOf(tbl) == {x.row : x \in tbl}

\* the lines that reach COPY: the header is skipped, and where ln_re filters,
\* the lines that do not match go to the log
PopCopied(ctf, file) ==
    IF ctf.filter THEN SelectSeq(Tail(file), LAMBDA ln : ln.ok) ELSE Tail(file)

\* the files of one CountyTxtFile, one after the other; ok is FALSE when COPY
\* meets a line it cannot read
RECURSIVE LoadCountyTxtFiles(_, _, _, _)
LoadCountyTxtFiles(tbl, ctf, loc, files) ==
    IF files = <<>> THEN [ok |-> TRUE, tbl |-> tbl]
    ELSE IF Head(files) = <<>>                      \* getsize == 0: continue
    THEN LoadCountyTxtFiles(tbl, ctf, loc, Tail(files))
    ELSE LET lines == PopCopied(ctf, Head(files))
         IN  IF \E k \in DOMAIN lines : ~ lines[k].ok
             THEN [ok |-> FALSE, tbl |-> tbl]
             ELSE LoadCountyTxtFiles(
                     InsertIfAbsent(tbl, [k \in DOMAIN lines |-> PopRow(ctf, loc, lines[k])]),
                     ctf, loc, Tail(files))

\* for ctf in COUNTY_TXT_FILES, from the k-th on
RECURSIVE LoadStateTables(_, _, _, _)
LoadStateTables(p, dir, loc, k) ==
    IF k > Len(CountyTxtFiles) THEN [ok |-> TRUE, pop |-> p]
    ELSE LET ctf == CountyTxtFiles[k]
             res == LoadCountyTxtFiles(p[ctf.tbl], ctf, loc, dir[ctf.tbl])
         IN  IF res.ok
             THEN LoadStateTables([p EXCEPT ![ctf.tbl] = res.tbl], dir, loc, k + 1)
             ELSE [ok |-> FALSE, pop |-> p]

\* the directory dpath_rt: per table, the county files found by rglob
PopDir(school, hospital, household, gq, workplace, person, gq_person) ==
    [school |-> school, hospital |-> hospital, household |-> household, gq |-> gq,
     workplace |-> workplace, person |-> person, gq_person |-> gq_person]

PopFile(lines) == <<PopHeader>> \o lines

\* state 39 unzipped: two counties; a hospital line that does not match ln_re
DirOhio ==
    PopDir(<<PopFile(<<PopLine(1, <<"39", "049">>, "s-oh", TRUE)>>)>>,
           <<PopFile(<<PopLine(1, NULL, "h-oh", TRUE), PopLine(2, NULL, "shifted", FALSE)>>)>>,
           <<PopFile(<<PopLine(1, <<"39", "049">>, "hh-oh-1", TRUE)>>),
             PopFile(<<PopLine(2, <<"39", "001">>, "hh-oh-2", TRUE)>>)>>,
           <<PopFile(<<PopLine(1, <<"39", "049">>, "gq-oh", TRUE)>>)>>,
           <<PopFile(<<PopLine(1, NULL, "w-oh", TRUE)>>)>>,
           <<PopFile(<<PopLine(1, NULL, "p-oh-1", TRUE), PopLine(2, NULL, "p-oh-2", TRUE)>>)>>,
           <<PopFile(<<PopLine(1, NULL, "gp-oh", TRUE)>>)>>)

\* state 42 unzipped: its ids start at 1 again; an empty gq file
DirPenn ==
    PopDir(<<PopFile(<<PopLine(1, <<"42", "003">>, "s-pa", TRUE)>>)>>,
           <<PopFile(<<PopLine(3, NULL, "h-pa", TRUE)>>)>>,
           <<PopFile(<<PopLine(1, <<"42", "003">>, "hh-pa-1", TRUE)>>)>>,
           <<<<>>>>,
           <<PopFile(<<PopLine(5, NULL, "w-pa", TRUE)>>)>>,
           <<PopFile(<<PopLine(1, NULL, "p-pa-1", TRUE)>>)>>,
           <<PopFile(<<PopLine(7, NULL, "gp-pa", TRUE)>>)>>)

\* state 39 with a household line COPY cannot read
DirBroken ==
    [DirOhio EXCEPT !.household =
        <<PopFile(<<PopLine(3, <<"39", "049">>, "hh-oh-3", TRUE),
                     PopLine(4, <<"39", "049">>, "income", FALSE)>>)>>]

PopDirs == {DirOhio, DirPenn, DirBroken}

StFipsArgs == {"39", "42"}

\* PopSchema.load_state(st_fips) over the directory dir; st_fips is not read
LoadState(st_fips, dir) ==
    /\ Idle
    /\ LET res == LoadStateTables(pop, dir, locale, 1)
       IN  IF res.ok
           THEN /\ pop' = res.pop
                /\ job' = Job("load-pop-state", dir, st_fips, "done", {},
                              job.cmd = "load-pop-state" /\ job.outcome = "done"
                                  /\ job.input = dir)
           ELSE \* the exception ends the process before the commit
                /\ pop' = pop
                /\ job' = Job("load-pop-state", dir, st_fips, "DataError", {}, FALSE)
    /\ UNCHANGED <<web, trace, factVars, noaa>>
    /\ locale' = LocaleSelected(locale)
    /\ UNCHANGED <<disease, dyn, npi, npi_type>>
    /\ UNCHANGED loaderVars
    /\ UNCHANGED clientVars
    /\ UNCHANGED air

PopWorlds == {World(l, DynSeparate, NpiGood) : l \in LocaleFiles}

InitPop == web \in PopWorlds /\ InitDb /\ InitObject /\ InitExt

NextPop ==
    \/ LoadLocalesJhu
    \/ \E st \in StFipsArgs, d \in PopDirs : LoadState(st, d)

SpecPop == InitPop /\ [][NextPop]_vars

\* the lines of a directory that load_state accepts, per table
PopAccepted(dir, t) ==
    UNION {{f[k] : k \in {n \in DOMAIN f : n > 1 /\ f[n].ok}} : f \in SeqToSet(dir[t])}

PopTableSet == {PopTables[k] : k \in DOMAIN PopTables}

\* C12: running load_state twice with the same source files leaves each of
\* the seven tables with the same rows and the same row count as running it once.
C12_LoadStateIdempotent ==
    [][(/\ job.cmd = "load-pop-state" /\ job.outcome = "done"
        /\ job'.cmd = "load-pop-state" /\ job'.input = job.input)
          => /\ job'.outcome = "done"
             /\ \A t \in PopTableSet :
                   /\ pop'[t] = pop[t]
                   /\ Cardinality(pop'[t]) = Cardinality(pop[t])]_vars

\* a state was loaded again, over tables that hold its rows
C12_Witness ==
    /\ job.cmd = "load-pop-state" /\ job.again
    /\ \A t \in PopTableSet : pop[t] # {}

\* C13: loads of different states compose: after a load_state that ended
\* normally, every source row it accepted is in its destination table, also
\* when a state loaded before has a row with the same source id.
C13_StatesCompose ==
    (job.cmd = "load-pop-state" /\ job.outcome = "done")
        => \A t \in PopTableSet : \A ln \in PopAccepted(job.input, t) :
              \E r \in PopRowsOf(pop[t]) :
                  r.id = ln.id /\ r.geo = ln.geo /\ r.v = ln.v

-----------------------------------------------------------------------------
(* The fact loaders: what VaxSchema, HealthSchema, WeatherSchema and         *)
(* MobilitySchema share                                                      *)

\* a processed source row before get_locales: the value of the column the
\* join is on, and the other columns
FactRow(key, data) == [key |-> key, data |-> data]

\* locale_df.set_index(col) of "SELECT id, admin1 ... WHERE admin0='US' AND admin2 IS NULL"
StateNameIndex(loc) ==
    {[key |-> l.admin1, id |-> l.id] : l \in {x \in loc : SqlEq(x.admin0, "US") /\ x.admin2 = NULL}}

\* locale_df.set_index('fips') of "SELECT id, fips FROM main.locale where admin0='US'"
FipsIndex(loc) ==
    {[key |-> l.fips, id |-> l.id] : l \in {x \in loc : SqlEq(x.admin0, "US")}}

\* the entries of the index a row joins with
JoinMatches(r, index) == {e \in index : SqlEq(e.key, r.key)}

RECURSIVE SetToSeq(_)
SetToSeq(S) ==
    IF S = {} THEN <<>>
    ELSE LET x == CHOOSE y \in S : TRUE IN <<x>> \o SetToSeq(S \ {x})

\* df.join(locale_df.set_index(col), how='inner', on=col); rename id to
\* locale_id; del df[col]
RECURSIVE InnerJoin(_, _)
InnerJoin(rows, index) ==
    IF rows = <<>> THEN <<>>
    ELSE LET m == SetToSeq(JoinMatches(Head(rows), index))
         IN  [k \in DOMAIN m |-> [locale_id |-> m[k].id, data |-> Head(rows).data]]
                 \o InnerJoin(Tail(rows), index)

\* the keys of the rows the inner join leaves out
JoinDropped(rows, index) ==
    {rows[k].key : k \in {n \in DOMAIN rows : JoinMatches(rows[n], index) = {}}}

\* the unique key of each fact table, as the value a row has under it
KeyOf(t, r) ==
    CASE t \in {"age", "race", "measures"} -> r.id
      [] t = "vax" -> <<r.locale_id, r.data.start_year, r.data.end_year,
                        r.data.age_id, r.data.race_id>>
      [] t = "health" -> <<r.locale_id, r.data.measure_id, r.data.start_year,
                           r.data.end_year>>
      [] t = "weather" -> <<r.locale_id, r.data.year, r.data.month>>
      [] t = "mobility" -> <<r.locale_id, r.data.timestamp>>

\* a table without a unique key
UniqueViolation_NoKey(tbl, rows, t) == FALSE

\* the INSERT of to_sql raises IntegrityError (UniqueViolation): a row of the
\* batch has the key of a stored row or of another row of the batch
UniqueViolation(tbl, rows, t) ==
    \E i \in DOMAIN rows :
        \/ \E x \in tbl : KeyOf(t, x.row) = KeyOf(t, rows[i])
        \/ \E j \in DOMAIN rows : j # i /\ KeyOf(t, rows[j]) = KeyOf(t, rows[i])

\* df.to_sql(..., if_exists='append') that did not raise: the rows of the
\* frame, each at a new place of the table
Appended(tbl, rows) ==
    tbl \cup {[row |-> rows[i], at |-> Cardinality(tbl) + i] : i \in DOMAIN rows}

RowsOf(tbl) == {x.row : x \in tbl}

-----------------------------------------------------------------------------
(* Vaccination: VaxSchema.load_vax *)

\* the labels of age_lookup the source uses, as pd.Categorical sorts them
AgeOrder == <<"18-49 years", "5-12 years">>

\* age_parser
AgeLookup(name) ==
    IF name = "18-49 years" THEN [age_0 |-> 18, age_1 |-> 49, is_high_risk |-> FALSE]
    ELSE [age_0 |-> 5, age_1 |-> 12, is_high_risk |-> FALSE]

\* the race labels of the source, as pd.Categorical sorts them
RaceOrder == <<"Black", "White">>

\* a cell group of CDC_Fluvax.xlsx after the pivot of process_df_: the state
\* name, the age band or the race it is under, the season, the coverage
VaxCell(name, age, race, start_year, end_year, coverage) ==
    [name |-> name, age |-> age, race |-> race, start_year |-> start_year,
     end_year |-> end_year, coverage |-> coverage]

\* pd.Categorical(col).categories: the labels present, sorted
Categories(cells, order, col) ==
    SelectSeq(order, LAMBDA c : \E k \in DOMAIN cells : cells[k][col] = c)

\* the codes 0, 1, 2 of a categorical, as stored
CodeIds == <<"0", "1", "2">>

\* .cat.codes, with -1 replaced by NaN
CatCode(cats, label) ==
    IF \E k \in DOMAIN cats : cats[k] = label
    THEN CodeIds[CHOOSE k \in DOMAIN cats : cats[k] = label]
    ELSE NULL

\* age_cats_df after age_parser
AgeCats(cells) ==
    LET cats == Categories(cells, AgeOrder, "age")
    IN  [k \in DOMAIN cats |->
            [id |-> CodeIds[k], name |-> cats[k], age_0 |-> AgeLookup(cats[k]).age_0,
             age_1 |-> AgeLookup(cats[k]).age_1,
             is_high_risk |-> AgeLookup(cats[k]).is_high_risk]]

\* race_cats_df
RaceCats(cells) ==
    LET cats == Categories(cells, RaceOrder, "race")
    IN  [k \in DOMAIN cats |-> [id |-> CodeIds[k], name |-> cats[k]]]

\* out_df before get_locales; coverage values with NR become NaN
VaxRows(cells) ==
    [k \in DOMAIN cells |->
        FactRow(cells[k].name,
                [age_id |-> CatCode(Categories(cells, AgeOrder, "age"), cells[k].age),
                 race_id |-> CatCode(Categories(cells, RaceOrder, "race"), cells[k].race),
                 start_year |-> cells[k].start_year, end_year |-> cells[k].end_year,
                 coverage |-> IF cells[k].coverage = "NR" THEN NULL ELSE cells[k].coverage])]

\* process_vax_file: data, age, race
ProcessVaxFile(cells, loc) ==
    [data |-> InnerJoin(VaxRows(cells), StateNameIndex(loc)),
     age  |-> AgeCats(cells),
     race |-> RaceCats(cells),
     dropped |-> JoinDropped(VaxRows(cells), StateNameIndex(loc))]

\* CDC_Fluvax.xlsx as published
VaxOhio ==
    <<VaxCell("Ohio", "18-49 years", NULL, 2017, 2018, "31.2"),
      VaxCell("Ohio", NULL, "White", 2017, 2018, "NR"),
      VaxCell("Guam", "18-49 years", NULL, 2017, 2018, "40.1")>>

\* a later edition: one more season
VaxOhioLater ==
    VaxOhio \o <<VaxCell("Ohio", "5-12 years", NULL, 2018, 2019, "55.0")>>

VaxFiles == {VaxOhio, VaxOhioLater}

\* VaxSchema.load_vax over the downloaded workbook; each to_sql is a transaction
\* of its own
LoadVax(file) ==
    /\ Idle
    /\ LET f == ProcessVaxFile(file, locale)
           again == job.cmd = "load-vax" /\ job.input = file
                        /\ job.outcome \in {"done", "already loaded"}
       IN  IF UniqueViolation(vax_age, f.age, "age")
           THEN /\ UNCHANGED <<vax_age, vax_race, vax_vax>>
                /\ job' = Job("load-vax", file, f.data, "already loaded", f.dropped, again)
           ELSE /\ vax_age' = Appended(vax_age, f.age)
                /\ IF UniqueViolation(vax_race, f.race, "race")
                   THEN /\ UNCHANGED <<vax_race, vax_vax>>
                        /\ job' = Job("load-vax", file, f.data, "already loaded",
                                      f.dropped, again)
                   ELSE /\ vax_race' = Appended(vax_race, f.race)
                        /\ IF UniqueViolation(vax_vax, f.data, "vax")
                           THEN /\ vax_vax' = vax_vax
                                /\ job' = Job("load-vax", file, f.data, "already loaded",
                                              f.dropped, again)
                           ELSE /\ vax_vax' = Appended(vax_vax, f.data)
                                /\ job' = Job("load-vax", file, f.data, "done",
                                              f.dropped, again)
    /\ UNCHANGED <<web, trace, health_measures, health, weather, mobility, pop, noaa>>
    /\ locale' = LocaleSelected(locale)
    /\ UNCHANGED <<disease, dyn, npi, npi_type>>
    /\ UNCHANGED loaderVars
    /\ UNCHANGED clientVars
    /\ UNCHANGED air

-----------------------------------------------------------------------------
(* County health rankings: HealthSchema.load_health *)

\* a row of CHR_trends_csv_2020.csv: state is the postal code, statecode and
\* countycode are str() of the integer cells, yearspan the years it names
ChrRow(state, statecode, countycode, yearspan, measureid, rawvalue) ==
    [state |-> state, statecode |-> statecode, countycode |-> countycode,
     yearspan |-> yearspan, measureid |-> measureid, rawvalue |-> rawvalue]

\* len(row.yearspan) of "2016" or "2016-2018"
YearspanLen(ys) == 5 * Len(ys) - 1

\* HealthSchema.format_row: start_year, end_year and fips
FormatRow(row) ==
    LET st == IF Len(row.statecode) = 1 THEN "0" \o row.statecode ELSE row.statecode
        ct == IF Len(row.countycode) = 1 THEN "00" \o row.countycode
              ELSE IF Len(row.countycode) = 2 THEN "0" \o row.countycode
              ELSE row.countycode
    IN  [start_year |-> row.yearspan[1],
         end_year   |-> IF YearspanLen(row.yearspan) > 4 THEN row.yearspan[2]
                        ELSE row.yearspan[1],
         fips       |-> IF st = "00" THEN "840"
                        ELSE IF ct = "000" THEN "000" \o st
                        ELSE st \o ct]

\* process_health_file before get_locales
HealthRows(trends, st_fips) ==
    LET kept == IF st_fips # "-" THEN SelectSeq(trends, LAMBDA r : r.state = st_fips)
                ELSE trends
    IN  [k \in DOMAIN kept |->
            FactRow(FormatRow(kept[k]).fips,
                    [measure_id |-> kept[k].measureid,
                     start_year |-> FormatRow(kept[k]).start_year,
                     end_year   |-> FormatRow(kept[k]).end_year,
                     rawvalue   |-> kept[k].rawvalue])]

ChrMeasures == <<[id |-> 1, name |-> "Premature death"]>>

ChrTrends ==
    <<ChrRow("OH", "39", "49", <<2016, 2018>>, 1, "7000"),
      ChrRow("OH", "39", "0",  <<2016, 2018>>, 1, "8000"),
      ChrRow("US", "0",  "0",  <<2018>>,       1, "6900"),
      ChrRow("PA", "42", "3",  <<2018>>,       1, "7100")>>

StateArgs == {"-", "OH", "PA"}

\* both appends in one try block, as in load_vax: a conflict on the measures
\* skips the append of the health rows
LoadHealth_OneTry(st_fips, trends, measures) ==
    /\ Idle
    /\ LET rows == HealthRows(trends, st_fips)
           data == InnerJoin(rows, FipsIndex(locale))
           dropped == JoinDropped(rows, FipsIndex(locale))
       IN  IF UniqueViolation(health_measures, measures, "measures")
              \/ UniqueViolation(health, data, "health")
           THEN /\ health' = health
                /\ health_measures' =
                      IF UniqueViolation(health_measures, measures, "measures")
                      THEN health_measures ELSE Appended(health_measures, measures)
                /\ job' = Job("load-health", trends, st_fips, "already loaded",
                              dropped, FALSE)
           ELSE /\ health_measures' = Appended(health_measures, measures)
                /\ health' = Appended(health, data)
                /\ job' = Job("load-health", trends, st_fips, "done", dropped, FALSE)
    /\ UNCHANGED <<web, trace, vax_age, vax_race, vax_vax, weather, mobility, pop, noaa>>
    /\ locale' = LocaleSelected(locale)
    /\ UNCHANGED <<disease, dyn, npi, npi_type>>
    /\ UNCHANGED loaderVars
    /\ UNCHANGED clientVars
    /\ UNCHANGED air

\* HealthSchema.load_health(st_fips)
LoadHealth(st_fips, trends, measures) ==
    /\ Idle
    /\ LET rows == HealthRows(trends, st_fips)
           data == InnerJoin(rows, FipsIndex(locale))
           dropped == JoinDropped(rows, FipsIndex(locale))
       IN  /\ health_measures' =
                 IF UniqueViolation(health_measures, measures, "measures")
                 THEN health_measures ELSE Appended(health_measures, measures)
           /\ IF UniqueViolation(health, data, "health")
              THEN /\ health' = health
                   /\ job' = Job("load-health", trends, st_fips, "already loaded",
                                 dropped, FALSE)
              ELSE /\ health' = Appended(health, data)
                   /\ job' = Job("load-health", trends, st_fips, "done", dropped, FALSE)
    /\ UNCHANGED <<web, trace, vax_age, vax_race, vax_vax, weather, mobility, pop, noaa>>
    /\ locale' = LocaleSelected(locale)
    /\ UNCHANGED <<disease, dyn, npi, npi_type>>
    /\ UNCHANGED loaderVars
    /\ UNCHANGED clientVars
    /\ UNCHANGED air

-----------------------------------------------------------------------------
(* Mobility: MobilitySchema.load_mobility *)

\* a row of Trips_by_Distance.csv: fips is str() of the County FIPS cell, date
\* the parts of the Date cell, trips NULL when a count is missing
TripsRow(level, date, state, fips, trips) ==
    [level |-> level, date |-> date, state |-> state, fips |-> fips, trips |-> trips]

\* MobilitySchema.add_zero
AddZero(x) == IF Len(x) < 5 THEN "0" \o x ELSE x

\* MobilitySchema.stamper
Stamper(d) == d[1] \o "-" \o d[2] \o "-" \o d[3]

\* process_mobility before get_locales
MobilityRows(file, state) ==
    LET county == SelectSeq(file, LAMBDA r : r.level = "County")
        mine   == IF state # "-" THEN SelectSeq(county, LAMBDA r : r.state = state)
                  ELSE county
        full   == SelectSeq(mine, LAMBDA r : r.trips # NULL)
    IN  [k \in DOMAIN full |->
            FactRow(AddZero(full[k].fips),
                    [timestamp |-> Stamper(full[k].date), trips |-> full[k].trips])]

Trips ==
    <<TripsRow("National", <<"2020", "01", "01">>, "", "", "900"),
      TripsRow("County", <<"2020", "01", "01">>, "OH", "39049", "90"),
      TripsRow("County", <<"2020", "01", "01">>, "AL", "1001", "10"),
      TripsRow("County", <<"2020", "01", "02">>, "OH", "39049", NULL)>>

\* MobilitySchema.load_mobility(state)
LoadMobility(state, file) ==
    /\ Idle
    /\ LET rows == MobilityRows(file, state)
           data == InnerJoin(rows, FipsIndex(locale))
           dropped == JoinDropped(rows, FipsIndex(locale))
       IN  IF UniqueViolation(mobility, data, "mobility")
           THEN /\ mobility' = mobility
                /\ job' = Job("load-mobility", file, state, "already loaded", dropped, FALSE)
           ELSE /\ mobility' = Appended(mobility, data)
                /\ job' = Job("load-mobility", file, state, "done", dropped, FALSE)
    /\ UNCHANGED <<web, trace, vax_age, vax_race, vax_vax, health_measures, health,
                   weather, pop, noaa>>
    /\ locale' = LocaleSelected(locale)
    /\ UNCHANGED <<disease, dyn, npi, npi_type>>
    /\ UNCHANGED loaderVars
    /\ UNCHANGED clientVars
    /\ UNCHANGED air

-----------------------------------------------------------------------------
(* Weather: WeatherSchema.load_weather, get_files, download_noaa *)

\* get_files: self.download_noaa(5, 30, 60)
NoaaMaxTries == 5
NoaaMinDelay == 30
NoaaMaxDelay == 60

\* download_noaa: i = 11 once the files are downloaded
NoaaDone == 11

\* the attempts followed before download_noaa is left to itself
NoaaAttemptsCap == 7

\* process_noaa: base_years = range(1895, 2021)
BaseYears == 1895..2020

YearArgs == {<<2019, 2020>>, <<2020, 2020>>}

\* load_weather up to the loop of download_noaa: the three lookup files are
\* fetched, i = 1
LoadWeatherStart(start_year, stop_year) ==
    /\ Idle
    /\ pc' = "noaa"
    /\ noaa' = [i |-> 1, max_tries |-> NoaaMaxTries, attempts |-> 0, failures |-> 0,
                delay |-> 0, outcome |-> "running"]
    /\ job' = Job("load-weather", <<>>, <<start_year, stop_year>>, "running", {}, FALSE)
    /\ UNCHANGED <<web, trace, factVars, pop>>
    /\ UNCHANGED dbVars
    /\ UNCHANGED <<dyn_load, run, loaded>>
    /\ UNCHANGED clientVars
    /\ UNCHANGED air

\* pc after a pass of the while loop of download_noaa
NoaaLoop(i, max_tries) == IF i <= max_tries THEN "noaa" ELSE "process"

\* one pass of the loop in which the try block completes: i = 11, then i += 1
DownloadNoaaOk ==
    /\ pc = "noaa"
    /\ noaa.i <= noaa.max_tries
    /\ noaa.attempts < NoaaAttemptsCap
    /\ noaa' = [noaa EXCEPT !.i = NoaaDone + 1, !.attempts = @ + 1,
                            !.outcome = "downloaded"]
    /\ pc' = NoaaLoop(NoaaDone + 1, noaa.max_tries)
    /\ UNCHANGED <<web, trace, factVars, pop, job>>
    /\ UNCHANGED dbVars
    /\ UNCHANGED <<dyn_load, run, loaded>>
    /\ UNCHANGED clientVars
    /\ UNCHANGED air

\* the counter after an attempt that raised: continue, without i += 1
NoaaAfterFailure(i) == i

\* one pass of the loop in which the try block raises: the except branch
DownloadNoaaFail(sleep_time) ==
    /\ pc = "noaa"
    /\ noaa.i <= noaa.max_tries
    /\ noaa.attempts < NoaaAttemptsCap
    /\ IF noaa.i <= noaa.max_tries
       THEN \* countdown(sleep_time); continue
            /\ noaa' = [noaa EXCEPT !.i = NoaaAfterFailure(@), !.attempts = @ + 1,
                                    !.failures = @ + 1, !.delay = sleep_time]
            /\ pc' = NoaaLoop(noaa'.i, noaa.max_tries)
       ELSE \* break
            /\ noaa' = [noaa EXCEPT !.attempts = @ + 1, !.failures = @ + 1,
                                    !.outcome = "exceeded"]
            /\ pc' = "process"
    /\ UNCHANGED <<web, trace, factVars, pop, job>>
    /\ UNCHANGED dbVars
    /\ UNCHANGED <<dyn_load, run, loaded>>
    /\ UNCHANGED clientVars
    /\ UNCHANGED air

\* a line of a climdiv county file: the NOAA state code, the county, the year
\* of its noaa_code, and the value of a month
WxLine(st, co, year, month, v) == [st |-> st, co |-> co, year |-> year, month |-> month, v |-> v]

\* process_noaa: yr_filter = set(base_years) ^ set(user_years)
YearFilter(start_year, stop_year) ==
    (BaseYears \ (start_year..stop_year)) \cup ((start_year..stop_year) \ BaseYears)

\* year_filter: ~df.year.str.contains('|'.join(yr_filter_str)); the empty
\* pattern of an empty list is contained in every year
YearKept(lines, filter) ==
    IF filter = {} THEN <<>>
    ELSE SelectSeq(lines, LAMBDA ln : ln.year \notin filter)

\* transformer: NOAA state code to census state FIPS (noaa_states.txt, state_fips.txt)
NoaaStates == [st \in {"33", "01"} |-> IF st = "33" THEN "39" ELSE "01"]

\* process_noaa before get_locales: the lines of the years asked for, without
\* those of NOAA state 50, keyed by census FIPS; -9.99 is a missing value
WeatherRows(lines, start_year, stop_year) ==
    LET kept == SelectSeq(YearKept(lines, YearFilter(start_year, stop_year)),
                          LAMBDA ln : ln.st # "50")
    IN  [k \in DOMAIN kept |->
            FactRow(NoaaStates[kept[k].st] \o kept[k].co,
                    [year |-> kept[k].year, month |-> kept[k].month,
                     precip |-> IF kept[k].v = "-9.99" THEN NULL ELSE kept[k].v])]

\* the climdiv files in the working directory
Climdiv ==
    <<WxLine("33", "049", 2019, 1, "2.50"),
      WxLine("33", "049", 2020, 1, "-9.99"),
      WxLine("01", "001", 2020, 1, "4.10"),
      WxLine("50", "013", 2020, 1, "1.00"),
      WxLine("33", "049", 2021, 1, "3.00")>>

\* load_weather after get_files: process_noaa and to_sql
LoadWeatherProcess(lines) ==
    /\ pc = "process"
    /\ LET rows == WeatherRows(lines, job.arg[1], job.arg[2])
           data == InnerJoin(rows, FipsIndex(locale))
           dropped == JoinDropped(rows, FipsIndex(locale))
       IN  IF UniqueViolation(weather, data, "weather")
           THEN /\ weather' = weather
                /\ job' = [job EXCEPT !.input = lines, !.outcome = "already loaded",
                                      !.dropped = dropped]
           ELSE /\ weather' = Appended(weather, data)
                /\ job' = [job EXCEPT !.input = lines, !.outcome = "done",
                                      !.dropped = dropped]
    /\ pc' = "idle"
    /\ UNCHANGED <<web, trace, vax_age, vax_race, vax_vax, health_measures, health,
                   mobility, pop, noaa>>
    /\ locale' = LocaleSelected(locale)
    /\ UNCHANGED <<disease, dyn, npi, npi_type>>
    /\ UNCHANGED <<dyn_load, run, loaded>>
    /\ UNCHANGED clientVars
    /\ UNCHANGED air

-----------------------------------------------------------------------------
(* Specifications of the fact loaders *)

\* lookup files for the fact loaders: those of the population loads, and one
\* that lists a county of a second state
FactWorlds == PopWorlds \cup {World(PickSeq(JhuLookup, {1, 2, 3, 7}), DynSeparate, NpiGood)}

InitFacts == web \in FactWorlds /\ InitDb /\ InitObject /\ InitExt

NextFacts ==
    \/ LoadLocalesJhu
    \/ \E f \in VaxFiles : LoadVax(f)
    \/ \E st \in StateArgs : LoadHealth(st, ChrTrends, ChrMeasures)
    \/ \E st \in StateArgs : LoadMobility(st, Trips)

SpecFacts == InitFacts /\ [][NextFacts]_vars

NextWeather ==
    \/ LoadLocalesJhu
    \/ \E y \in YearArgs : LoadWeatherStart(y[1], y[2])
    \/ DownloadNoaaOk
    \/ \E t \in NoaaMinDelay..NoaaMaxDelay : DownloadNoaaFail(t)
    \/ LoadWeatherProcess(Climdiv)

SpecWeather == InitFacts /\ [][NextWeather]_vars

-----------------------------------------------------------------------------
(* The fact loaders: properties *)

JoinLoaders == {"load-vax", "load-health", "load-weather", "load-mobility"}

\* C11: in load_vax, load_health, load_weather and load_mobility a source
\* row whose locale key matches no row of main.locale makes the load fail;
\* no load ends normally having left such a row out.
C11_UnresolvedRowsFatal ==
    (job.cmd \in JoinLoaders /\ job.dropped # {}) => job.outcome = "failed"

\* C14: a load_vax that reads the input of the load_vax before it leaves
\* vax.age, vax.race and vax.vax with the same rows and row counts, and ends
\* normally with the already-loaded notice.
C14_VaxReloadNoOp ==
    [][(job'.cmd = "load-vax" /\ job'.again)
          => /\ job'.outcome = "already loaded"
             /\ vax_age' = vax_age /\ vax_race' = vax_race /\ vax_vax' = vax_vax
             /\ Cardinality(vax_age') = Cardinality(vax_age)
             /\ Cardinality(vax_race') = Cardinality(vax_race)
             /\ Cardinality(vax_vax') = Cardinality(vax_vax)]_vars

\* load_vax ran a second time on its input, over loaded tables
C14_Witness ==
    /\ job.cmd = "load-vax" /\ job.again /\ job.outcome = "already loaded"
    /\ vax_age # {} /\ vax_race # {} /\ vax_vax # {}

\* C15: whenever load_vax ends reporting that the data is already loaded,
\* vax.age, vax.race and vax.vax hold the rows of this input.
C15_AlreadyLoadedConsistent ==
    (job.cmd = "load-vax" /\ job.outcome = "already loaded")
        => /\ SeqToSet(AgeCats(job.input)) \subseteq RowsOf(vax_age)
           /\ SeqToSet(RaceCats(job.input)) \subseteq RowsOf(vax_race)
           /\ SeqToSet(job.arg) \subseteq RowsOf(vax_vax)

\* C16: download_noaa makes at most max_tries attempts, also when every
\* attempt raises.
C16_BoundedRetry == noaa.attempts <= noaa.max_tries

\* C17: once max_tries download attempts have failed, load_weather has ended
\* in failure: it is neither still downloading nor processing files.
C17_ExhaustionFatal ==
    (job.cmd = "load-weather" /\ noaa.failures >= noaa.max_tries)
        => (Idle /\ job.outcome = "failed")

-----------------------------------------------------------------------------
(* All the loaders against one database *)

InitLoaders ==
    /\ web = World(PickSeq(JhuLookup, {1, 2, 3, 5}), DynSeparate, NpiGood)
    /\ InitDb /\ InitObject /\ InitExt

NextLoaders ==
    \/ LoadLocalesJhu
    \/ LoadCovid19
    \/ LoadCovid19DynDs
    \/ LoadCovid19DynDsNoFile
    \/ LoadCovid19DynConsolidate
    \/ LoadCovid19NpiKeystone
    \/ LoadState("39", DirOhio)
    \/ LoadVax(VaxOhio)
    \/ LoadHealth("OH", ChrTrends, ChrMeasures)
    \/ LoadMobility("OH", Trips)
    \/ LoadWeatherStart(2020, 2020)
    \/ DownloadNoaaOk
    \/ LoadWeatherProcess(Climdiv)

SpecLoaders == InitLoaders /\ [][NextLoaders]_vars

\* C21: load_covid_19 (dyn and NPI), load_state, load_vax, load_health,
\* load_weather and load_mobility leave main.locale exactly as it was, whether
\* they succeed or fail; a step that changes main.locale is load_locales_jhu.
C21_LocaleReadOnly == [][locale' # locale => LoadLocalesJhu]_vars

\* main.locale is loaded and covid, population and fact loaders have all run
\* against it
C21_Witness ==
    /\ locale # {}
    /\ dyn # {} /\ npi # {}
    /\ pop["school"] # {}
    /\ vax_vax # {} /\ health # {} /\ mobility # {} /\ weather # {}

NpiLabels(file) ==
    LET rows == NpiKept(file)
    IN  [i \in DOMAIN rows |-> ReplaceUnderscore(Cell(rows[i], 3))]

\* C23: after a successful NPI load the distinct labels of the kept rows
\* have the ids 0..n-1 in the order of their first occurrence, npi_type holds
\* exactly these n (id, name) pairs, and the type_id of every npi row is the
\* id of the label of a kept row it was made from.
C23_NpiTypeEncoding ==
    (Idle /\ loaded.npi # <<>>) =>
        LET labels == NpiLabels(loaded.npi[1])
            first  == Dedup(labels)
            rows   == NpiKept(loaded.npi[1])
        IN  /\ npi_type = {[id |-> k - 1, name |-> first[k]] : k \in DOMAIN first}
            /\ \A i \in DOMAIN rows :
                   \E r \in npi, k \in DOMAIN first :
                       /\ first[k] = labels[i] /\ r.type_id = k - 1
                       /\ r.begin_date = Cell(rows[i], 4)
                       /\ r.end_date = Cell(rows[i], 5)
            /\ \A r \in npi :
                   \E i \in DOMAIN rows, k \in DOMAIN first :
                       /\ first[k] = labels[i] /\ r.type_id = k - 1
                       /\ r.begin_date = Cell(rows[i], 4)

\* a load in which two spellings of one label got one id, after another label
C23_Witness ==
    /\ Idle /\ run.cmd = "load-dis" /\ run.outcome = "done" /\ loaded.npi # <<>>
    /\ Cardinality(npi_type) = 2
    /\ Len(NpiLabels(loaded.npi[1])) > 2
    /\ \E r \in npi : r.type_id = 1

-----------------------------------------------------------------------------
(* A database that holds another disease *)

\* a disease recorded before COVID-19, its dynamics and its interventions
OtherDisease == [id |-> SerialIds[1], name |-> "H1N1"]
OtherDyn == NewDynRow(OtherDisease.id, "380", Days[1], 1, "n_conf", "5")
OtherNpiType == [id |-> 0, name |-> "school closure"]
OtherNpi ==
    [disease_id |-> OtherDisease.id, locale_id |-> "380", type_id |-> 0,
     begin_date |-> "5/1/09", end_date |-> NULL, begin_citation |-> NULL,
     begin_note |-> NULL, end_citation |-> NULL, end_note |-> NULL]

InitDiseases ==
    /\ web \in Worlds
    /\ locale = LocaleReplaced({}, TransformRows(PickSeq(JhuLookup, {1, 2, 3, 5})))
    /\ disease = {OtherDisease} /\ dyn = {OtherDyn}
    /\ npi = {OtherNpi} /\ npi_type = {OtherNpiType}
    /\ pc = "idle" /\ dyn_load = {} /\ run = NoRun /\ loaded = NothingLoaded
    /\ InitObject /\ InitExt

NextDiseases ==
    \/ UpstreamUpdate
    \/ LoadCovid19
    \/ LoadCovid19DynDs
    \/ LoadCovid19DynDsNoFile
    \/ LoadCovid19DynConsolidate
    \/ LoadCovid19NpiKeystone

SpecDiseases == InitDiseases /\ [][NextDiseases]_vars

\* the rows of a table that belong to other diseases than dis
OfOthers(tbl, dis) == {r \in tbl : r.disease_id # dis}

HealthBatch(st_fips) ==
    SeqToSet(InnerJoin(HealthRows(ChrTrends, st_fips), FipsIndex(locale)))

\* C25: in load_health a uniqueness conflict on health.measures (loaded by
\* an earlier run for another state) does not keep the health rows of the
\* requested state from being appended: after load_health(A) and then
\* load_health(B), health.health holds the rows of A and the rows of B.
C25_HealthIndependentOfMeasures ==
    [][(/\ job.cmd = "load-health" /\ job'.cmd = "load-health"
        /\ job' # job
        /\ job.arg # "-" /\ job'.arg # "-" /\ job.arg # job'.arg
        /\ health_measures # {})
       => /\ health_measures' = health_measures
          /\ RowsOf(health) \subseteq RowsOf(health')
          /\ HealthBatch(job'.arg) \subseteq RowsOf(health')]_vars

\* both states have rows that resolve, the measures were loaded once, and
\* the second state was loaded last
C25_Witness ==
    /\ job.cmd = "load-health" /\ job.arg = "PA" /\ job.outcome = "done"
    /\ HealthBatch("PA") # {} /\ HealthBatch("OH") # {}
    /\ HealthBatch("PA") \cup HealthBatch("OH") \subseteq RowsOf(health)
    /\ Cardinality(health_measures) = Len(ChrMeasures)

\* a code zero-padded to n digits
RECURSIVE ZeroPadded(_, _)
ZeroPadded(c, n) == IF Len(c) < n THEN ZeroPadded("0" \o c, n) ELSE c

\* the FIPS key in the format of main.locale: '840' for the US, two digits
\* for a state, five for a county
LocaleFips(row) ==
    IF ZeroPadded(row.statecode, 2) = "00" THEN "840"
    ELSE IF ZeroPadded(row.countycode, 3) = "000" THEN ZeroPadded(row.statecode, 2)
    ELSE ZeroPadded(row.statecode, 2) \o ZeroPadded(row.countycode, 3)

\* C26: for every (statecode, countycode) format_row yields '840' for the
\* whole US, the 2-digit state code for a state-level row and the 5-digit code
\* for a county, so that a state-level health row joins to the state's row of
\* main.locale.
C26_HealthFipsFormat ==
    job.cmd = "load-health" =>
        \A k \in DOMAIN job.input :
            /\ FormatRow(job.input[k]).fips = LocaleFips(job.input[k])
            /\ (/\ job.input[k].countycode = "0" /\ job.input[k].statecode # "0"
                /\ \E l \in locale : SqlEq(l.admin0, "US")
                                       /\ SqlEq(l.fips, LocaleFips(job.input[k])))
               => JoinMatches(FactRow(FormatRow(job.input[k]).fips, <<>>),
                              FipsIndex(locale)) # {}

\* C27: load_weather(start_year, stop_year) loads an observation only if
\* its year y satisfies start_year <= y <= stop_year, whatever years the source
\* file contains.
C27_YearRangeFilter ==
    [][(pc = "process" /\ pc' = "idle") =>
          \A x \in weather' \ weather :
              job.arg[1] <= x.row.data.year /\ x.row.data.year <= job.arg[2]]_vars

-----------------------------------------------------------------------------
(* The LocaleDB object: the selected disease and the dynamics accessors *)

\* the record kept of a call that names a disease or reads dis.dyn
DisCall(op, name, rows, result) == [op |-> op, name |-> name, rows |-> rows, result |-> result]

DiseaseArgs == {CovidName, "H1N1"}

\* _get_num('dis.disease', 'id', 'name = %s', [name]): row[0] if row else None
GetDiseaseId(name) ==
    IF \E d \in disease : SqlEq(d.name, name) THEN DiseaseIdOf(disease, name) ELSE NULL

\* LocaleDB.set_disease: the attribute is assigned, then tested; the raise
\* statement calls UnknownDiseaseError, a class without base class and
\* without __init__, with one argument, which is a TypeError
SetDisease(name) ==
    /\ disease_id' = GetDiseaseId(name)
    /\ call' = DisCall("set_disease", name, 0,
                       IF disease_id' = NULL THEN "TypeError" ELSE "ok")
    /\ UNCHANGED <<web, locale_id, locale_iso_num, locale_fips>>
    /\ UNCHANGED dbVars
    /\ UNCHANGED loaderVars
    /\ UNCHANGED <<trace, extVars>>

\* _req_disease() and _req_locale(): what a call returns or raises
ReqDisease == IF disease_id = NULL THEN "ObjectStateError" ELSE "None"
ReqLocale  == IF locale_id = NULL THEN "ObjectStateError" ELSE "None"

\* self._req_disease() and self._req_locale(): the right operand is evaluated
\* only when the left one returned a true value, and None is not one
ReqDiseaseAndLocale ==
    IF ReqDisease = "ObjectStateError" THEN "ObjectStateError"
    ELSE IF ReqDisease = "None" THEN "None"
    ELSE ReqLocale

DynAccessors ==
    {"get_dis_dyn_by_day", "get_dis_dyn_by_day_conf", "get_dis_dyn_by_day_dead",
     "get_dis_dyn_delta_by_day", "get_dis_dyn_norm"}

\* SELECT ... FROM dis.dyn WHERE disease_id = %s AND locale_id = %s ...
DynSelected == {r \in dyn : SqlEq(r.disease_id, disease_id) /\ SqlEq(r.locale_id, locale_id)}

\* a dynamics accessor called for the confirmed cases over all days
GetDisDyn(op) ==
    /\ call' = IF ReqDiseaseAndLocale = "ObjectStateError"
               THEN DisCall(op, NULL, 0, "ObjectStateError")
               ELSE DisCall(op, NULL, Cardinality(DynSelected), "queried")
    /\ UNCHANGED <<web, locale_id, locale_iso_num, locale_fips, disease_id>>
    /\ UNCHANGED dbVars
    /\ UNCHANGED loaderVars
    /\ UNCHANGED <<trace, extVars>>

InitAccess ==
    /\ web = World(PickSeq(JhuLookup, {1, 2, 3, 5}), DynSeparate, NpiGood)
    /\ InitDb /\ InitObject /\ InitExt

NextAccess ==
    \/ LoadLocalesJhu
    \/ LoadCovid19
    \/ LoadCovid19DynDs
    \/ LoadCovid19DynDsNoFile
    \/ LoadCovid19DynConsolidate
    \/ LoadCovid19NpiKeystone
    \/ \E name \in DiseaseArgs : SetDisease(name)
    \/ \E a1 \in Admin1Args : SetLocaleByName("US", a1, NULL)
    \/ \E op \in DynAccessors : GetDisDyn(op)

SpecAccess == InitAccess /\ [][NextAccess]_vars

\* C28: a disease-dynamics accessor raises ObjectStateError and issues no
\* query unless both a disease and a locale are set; it raises when a disease
\* is set and no locale is.
C28_AccessorStateGuard ==
    [][\A op \in DynAccessors :
          (GetDisDyn(op) /\ (disease_id = NULL \/ locale_id = NULL))
              => call'.result = "ObjectStateError"]_vars

\* C29: set_disease with an unknown name raises UnknownDiseaseError and
\* leaves the disease_id selected before unchanged.
C29_SetDiseaseFailsCleanly ==
    [][\A name \in DiseaseArgs :
          (SetDisease(name) /\ GetDiseaseId(name) = NULL)
              => /\ call'.result = "UnknownDiseaseError"
                 /\ disease_id' = disease_id]_vars

-----------------------------------------------------------------------------
(* scripts/airtraffic.py: the download of the two BTS zip files *)

\* what urlopen(url).read() can return
AirPayloads == {"zip-a", "zip-b"}

\* url.split("/")[-1].split(".")[0]
ZipFile(url) == url.name

\* the loop of one URL before its first attempt
AirLoop(a, k) == [a EXCEPT !.pc = "loop", !.url = k, !.tries = 0, !.downloaded = FALSE,
                           !.attempts = 0, !.data = NULL]

\* the end of one pass of "while not downloaded": the test of tries, then
\* the loop condition
AirAfterAttempt_NoLimit(tries, downloaded) ==
    IF downloaded THEN "write" ELSE "loop"

AirAfterAttempt(tries, downloaded) ==
    IF tries = AirMaxTries THEN "exited"
    ELSE IF downloaded THEN "write" ELSE "loop"

\* airtraffic(): up to the first pass of the loop of the first URL
AirTrafficStart ==
    /\ air.pc \in {"idle", "done", "exited"}
    /\ air' = AirLoop([air EXCEPT !.written = <<>>], 1)
    /\ UNCHANGED <<web, trace, factVars, pop, noaa, job>>
    /\ UNCHANGED dbVars
    /\ UNCHANGED loaderVars
    /\ UNCHANGED clientVars

\* one pass of the loop in which urlopen and read succeed
AirDownloadOk(data) ==
    /\ air.pc = "loop"
    /\ ~ air.downloaded
    /\ air' = [air EXCEPT !.downloaded = TRUE,
                          !.data = data,
                          !.attempts = @ + 1,
                          !.pc = AirAfterAttempt(air.tries, TRUE)]
    /\ UNCHANGED <<web, trace, factVars, pop, noaa, job>>
    /\ UNCHANGED dbVars
    /\ UNCHANGED loaderVars
    /\ UNCHANGED clientVars

\* one pass of the loop in which urlopen or read raises
AirDownloadFail ==
    /\ air.pc = "loop"
    /\ ~ air.downloaded
    /\ air' = [air EXCEPT !.tries = @ + 1,
                          !.attempts = @ + 1,
                          !.pc = AirAfterAttempt(air.tries + 1, air.downloaded)]
    /\ UNCHANGED <<web, trace, factVars, pop, noaa, job>>
    /\ UNCHANGED dbVars
    /\ UNCHANGED loaderVars
    /\ UNCHANGED clientVars

\* after the loop: the zip file is written, then the next URL's loop starts
AirWriteZip ==
    /\ air.pc = "write"
    /\ LET w == [air EXCEPT !.written =
                     Append(@, [zip_file |-> ZipFile(AirUrls[air.url]),
                                data |-> air.data])]
       IN  air' = IF air.url = Len(AirUrls)
                  THEN [w EXCEPT !.pc = "done"]
                  ELSE AirLoop(w, air.url + 1)
    /\ UNCHANGED <<web, trace, factVars, pop, noaa, job>>
    /\ UNCHANGED dbVars
    /\ UNCHANGED loaderVars
    /\ UNCHANGED clientVars

InitAir == web \in FactWorlds /\ InitDb /\ InitObject /\ InitExt

NextAir ==
    \/ LoadLocalesJhu
    \/ AirTrafficStart
    \/ \E data \in AirPayloads : AirDownloadOk(data)
    \/ AirDownloadFail
    \/ AirWriteZip

SpecAir == InitAir /\ [][NextAir]_vars

\* the zip files written so far in this run
AirWritten == {air.written[k].zip_file : k \in DOMAIN air.written}

\* C30: for each of the two URLs the download loop makes at most two
\* attempts; it leaves the loop with the payload after the first successful
\* attempt; the process ends with an error after the second consecutive
\* failure; no zip file is written for a URL whose download did not succeed.
C30_BoundedRetry ==
    /\ air.attempts <= 2
    /\ air.downloaded => /\ air.pc \in {"write", "done"}
                         /\ air.data \in AirPayloads
    /\ air.pc = "write" => air.downloaded
    /\ air.pc = "exited" <=> (air.tries = 2 /\ air.attempts = 2)
    /\ air.pc = "exited" => /\ ~ air.downloaded
                            /\ ZipFile(AirUrls[air.url]) \notin AirWritten
    /\ air.pc = "loop" => ZipFile(AirUrls[air.url]) \notin AirWritten
    /\ \A k \in DOMAIN air.written : air.written[k].data \in AirPayloads

\* the second URL gives up after two failures, the first one written after a
\* failure and a success
C30_Witness ==
    /\ air.pc = "exited"
    /\ air.url = 2
    /\ air.tries = 2
    /\ Len(air.written) = 1

====
